---- MODULE Spec2Model ----
(***************************************************************************)
(* Model of bcfind/blob_dog.py: the BlobDoG detector object, its           *)
(* hyper-parameter search BlobDoG.fit / BlobDoG._objective with the        *)
(* checkpoint file BlobDoG_parameters.json, and the GPU routine blob_dog.  *)
(*                                                                         *)
(* Units.  The parameters are Python floats; the model keeps them as       *)
(* integers: min_rad, max_rad and min_max_rad_diff in voxels, sigma_ratio  *)
(* in tenths (14 is 1.4), overlap and threshold in hundredths (80 is 0.8). *)
(* A score (F1) is an exact fraction [num, den] in lowest terms.           *)
(***************************************************************************)
EXTENDS Integers, Sequences, FiniteSets, TLC

VARIABLES
    train_step,       \* self.train_step
    live,             \* self.min_rad, max_rad, sigma_ratio, overlap, threshold
    checkpoint_file,  \* <checkpoint_dir>/BlobDoG_parameters.json on disk
    pc,               \* where the instance's thread of control is
    call,             \* arguments of the fit call in progress
    trials,           \* hyperopt's Trials of the fmin call in progress
    parameters,       \* the dict handed to _objective (<<>> outside a call)
    state,            \* local `state` of _objective: <<>> while unbound
    truth,            \* counts predict_and_evaluate found per finished element
    finished,         \* dataset elements whose evaluation has completed
    res,              \* local `res` of _objective, in completion order
    f1,               \* local `f1` of _objective: <<>> before line 342
    error,            \* the exception that ended the fit call, "none" if none
    run_last,         \* history: the score this fit call dumped last, if any
    worker_failed,    \* history: predict_and_evaluate raised in this evaluation
    bpc,              \* blob_dog: where the invocation is
    k,                \* blob_dog: local k, the number of scale pairs
    i,                \* blob_dog: loop index of line 96
    scalar_sigma,     \* blob_dog: local scalar_sigma
    detected_blobs,   \* blob_dog: rows of each lm appended at line 107
    n_blobs,          \* blob_dog: rows of detected_blobs after line 110
    on_device,        \* blob_dog: line 93 has put the image on the device
    freed,            \* blob_dog: lines 113-114 have run in this invocation
    result,           \* blob_dog: kind and column count of what it gave back
    op,               \* entry point of the detection or evaluation call
    evaluation_type,  \* evaluation_type argument of the call
    args,             \* the parameters the detection call works with
    log_ratio,        \* blob_dog: <<u>>, mean(log(max/min)/log(ratio)) in
                      \* quarters; <<>> when it is not finite
    sigma_list,       \* blob_dog: exponents of sigma_ratio in sigma_list
    matched,          \* evaluate: bipartite_match has run in this call
    constructed_with, \* dim_resolution argument the detector was built with
    dim_resolution,   \* self.dim_resolution
    rpc,              \* train.py main: where the U-Net prediction loop is
    file_i,           \* train.py: files of ordered_tiff_list taken so far
    attempt,          \* train.py: local attempt
    x_pad,            \* train.py: voxels tf.pad has added to x on axes 1, 2, 3
    exc,              \* train.py: the exception `e` the except clause holds
    n_calls           \* history: calls of unet for the current file

fit_vars == <<train_step, live, checkpoint_file, pc, call, trials, parameters,
              state, truth, finished, res, f1, error, run_last, worker_failed>>

\* the fit side without the five parameters
fit_rest == <<train_step, checkpoint_file, pc, call, trials, parameters, state,
              truth, finished, res, f1, error, run_last, worker_failed>>

dog_vars == <<bpc, k, i, scalar_sigma, detected_blobs, n_blobs, on_device,
              freed, result, op, evaluation_type, args, log_ratio, sigma_list,
              matched, constructed_with, dim_resolution>>

retry_vars == <<rpc, file_i, attempt, x_pad, exc, n_calls>>

vars == <<fit_vars, dog_vars, retry_vars>>

----------------------------------------------------------------------------
(* Bounds of the model *)

\* len(X) = len(Y): number of dataset elements
NElems == 2

\* largest n_iter passed to fit
MaxIter == 2

\* largest value self.train_step reaches on one instance
MaxStep == 2

\* blob_dog: most peaks peak_local_max finds at one scale pair
MaxPeaks == 2

\* blob_dog: largest |log(max_sigma/min_sigma)/log(sigma_ratio)|, in quarters
MaxLogQuarters == 12

\* train.py: len(ordered_tiff_list), the files to predict
NFiles == 2

\* self.D (n_dim) of the detector, and image.ndim of its images
D == 3

\* line 118: np.empty((0, 3)), the columns of the empty result
EmptyCols == 3

Elems == 1..NElems

----------------------------------------------------------------------------
(* Values *)

\* BlobDoG.__init__: the default parameter settings
Defaults ==
    [min_rad |-> 7, max_rad |-> 15, sigma_ratio |-> 14,
     overlap |-> 80, threshold |-> 5]

\* The dicts the owner passes to set_parameters: a snapshot it took with
\* get_parameters from a new detector
Snapshots == {Defaults}

\* Points of the search space of fit (hp.uniform ranges: min_rad 2..15,
\* min_max_rad_diff 1..10, sigma_ratio 1.0..2.0, overlap and threshold 0..1)
SearchSpace ==
    { [min_rad |-> 2, min_max_rad_diff |-> 3, sigma_ratio |-> 12,
       overlap |-> 50, threshold |-> 10],
      [min_rad |-> 6, min_max_rad_diff |-> 1, sigma_ratio |-> 17,
       overlap |-> 30, threshold |-> 20] }

\* One row of evaluate(..., "counts"): TP, FP, FN of one dataset element
\* (tot_pred = TP + FP and tot_true = TP + FN are determined by these)
CountRows ==
    { [TP |-> 1, FP |-> 0, FN |-> 0],
      [TP |-> 0, FP |-> 1, FN |-> 1] }

RECURSIVE GCD(_, _)
GCD(a, b) == IF b = 0 THEN a ELSE GCD(b, a % b)

\* the fraction n/d (d > 0) in lowest terms
Frac(n, d) == LET g == GCD(n, d) IN [num |-> n \div g, den |-> d \div g]

\* a > b on scores
Greater(a, b) == a.num * b.den > b.num * a.den

\* a >= b on scores
AtLeast(a, b) == a.num * b.den >= b.num * a.den

----------------------------------------------------------------------------
(* The checkpoint file *)

NoFile == [kind |-> "absent"]

\* after open(checkpoint_file, "w") and before json.dump has completed:
\* zero bytes, or a prefix of the JSON text
Truncated == [kind |-> "truncated"]

\* json.dump(state, f): the whole dict as one JSON object
JsonDump(st) == [kind |-> "json", data |-> st]

\* json.load(f) of a complete JSON object
JsonLoad(file) == file.data

\* os.path.isfile(checkpoint_file)
IsFile(file) == file.kind # "absent"

----------------------------------------------------------------------------
(* Pure parts of _objective and fit *)

RECURSIVE SumCol(_, _)
SumCol(df, col) ==
    IF df = <<>> THEN 0
    ELSE (CASE col = "TP" -> Head(df).TP
            [] col = "FP" -> Head(df).FP
            [] col = "FN" -> Head(df).FN) + SumCol(Tail(df), col)

\* bcfind.utils.metrics(df)["f1"]: counts summed over the rows, then
\* prec = TP/(TP+FP), rec = TP/(TP+FN), f1 = 2*prec*rec/(prec+rec), each 0
\* when its denominator is 0; for TP > 0 this is 2TP/(2TP+FP+FN)
metrics_f1(df) ==
    LET TP == SumCol(df, "TP")
        FP == SumCol(df, "FP")
        FN == SumCol(df, "FN")
    IN  IF TP = 0 THEN Frac(0, 1) ELSE Frac(2 * TP, 2 * TP + FP + FN)

\* variant of concat: only the first frame of the list is kept (res[0])
concat_first_only(frames) == IF frames = <<>> THEN <<>> ELSE <<Head(frames)>>

\* pd.concat(res): the one-row frames stacked in list order
concat(frames) == frames

\* line 314 / line 406: d["max_rad"] = d["min_rad"] + d["min_max_rad_diff"]
WithMaxRad(d) ==
    [min_rad |-> d.min_rad, min_max_rad_diff |-> d.min_max_rad_diff,
     sigma_ratio |-> d.sigma_ratio, overlap |-> d.overlap,
     threshold |-> d.threshold, max_rad |-> d.min_rad + d.min_max_rad_diff]

\* variant of NewState: the step recorded is the one before the increment
NewState_stale_step(par, score, step) ==
    [min_rad |-> par.min_rad, min_max_rad_diff |-> par.min_max_rad_diff,
     sigma_ratio |-> par.sigma_ratio, overlap |-> par.overlap,
     threshold |-> par.threshold, max_rad |-> par.max_rad,
     f1 |-> score, step |-> step - 1]

\* lines 346-348 / 353-355: state = parameters; state["f1"]; state["step"]
NewState(par, score, step) ==
    [min_rad |-> par.min_rad, min_max_rad_diff |-> par.min_max_rad_diff,
     sigma_ratio |-> par.sigma_ratio, overlap |-> par.overlap,
     threshold |-> par.threshold, max_rad |-> par.max_rad,
     f1 |-> score, step |-> step]

\* line 345: the first evaluation of the instance writes unconditionally
FirstStep(step) == step = 1

\* line 352: f1 > state["f1"]
Improves(score, st) == Greater(score, st.f1)

\* set_parameters: the five fields read from the dict
set_parameters(d) ==
    [min_rad |-> d.min_rad, max_rad |-> d.max_rad,
     sigma_ratio |-> d.sigma_ratio, overlap |-> d.overlap,
     threshold |-> d.threshold]

\* variant of self_after_predict: a dict passed to predict is installed
\* with set_parameters before the detection
self_after_predict_set(self, par) ==
    IF par = <<>> THEN self ELSE set_parameters(par[1])

\* the five parameters of the detector after predict(x, parameters) or
\* predict_and_evaluate(..., parameters): lines 187-216 and 292-302 read
\* self or the dict (<<>> for None, <<dict>> otherwise), assign neither
self_after_predict(self, par) == self

\* variant of argmin: the vals of the trial evaluated last
argmin_last(ts) == ts[Len(ts)].vals

\* hyperopt Trials.argmin: the vals of the first trial of least loss
\* (loss = -f1, so of greatest f1)
argmin(ts) ==
    LET best == CHOOSE t \in 1..Len(ts) :
                   /\ \A j \in 1..Len(ts) :
                         AtLeast(ts[t].result[1], ts[j].result[1])
                   /\ \A j \in 1..(t - 1) :
                         Greater(ts[t].result[1], ts[j].result[1])
    IN  ts[best].vals

----------------------------------------------------------------------------
(* State machine of one BlobDoG instance and the checkpoint file *)

Init ==
    /\ train_step = 0
    /\ live = Defaults
    /\ checkpoint_file = NoFile
    /\ pc = "idle"
    /\ call = [n_iter |-> 0, checkpoint_dir |-> FALSE, n_cpu |-> 1]
    /\ trials = <<>>
    /\ parameters = <<>>
    /\ state = <<>>
    /\ truth = <<>>
    /\ finished = {}
    /\ res = <<>>
    /\ f1 = <<>>
    /\ error = "none"
    /\ run_last = <<>>
    /\ worker_failed = FALSE
    /\ bpc = "idle"
    /\ k = 0
    /\ i = 0
    /\ scalar_sigma = TRUE
    /\ detected_blobs = <<>>
    /\ n_blobs = 0
    /\ on_device = FALSE
    /\ freed = FALSE
    /\ result = [kind |-> "none", cols |-> 0]
    /\ op = "none"
    /\ evaluation_type = "complete"
    /\ args = Defaults
    /\ log_ratio = <<>>
    /\ sigma_list = <<>>
    /\ matched = FALSE
    /\ constructed_with = [shape |-> "scalar"]
    /\ dim_resolution = [shape |-> "array", len |-> D]
    /\ rpc = "idle"
    /\ file_i = 0
    /\ attempt = 0
    /\ x_pad = [axis1 |-> 0, axis2 |-> 0, axis3 |-> 0]
    /\ exc = "none"
    /\ n_calls = 0

\* the locals of _objective are gone once the call has returned or raised
LocalsDropped ==
    /\ parameters' = <<>>
    /\ state' = <<>>
    /\ truth' = <<>>
    /\ finished' = {}
    /\ res' = <<>>
    /\ f1' = <<>>

\* an exception leaves _objective, fmin (catch_eval_exceptions=False) and
\* fit; fmin's Trials object goes with it
Raise(kind) ==
    /\ pc' = "failed"
    /\ error' = kind
    /\ trials' = <<>>
    /\ LocalsDropped

\* _objective returns {'loss': -f1, 'status': STATUS_OK} to fmin
ReturnLoss ==
    /\ trials' = [trials EXCEPT ![Len(trials)].result = f1]
    /\ pc' = "fmin"
    /\ LocalsDropped

\* fit(X, Y, max_match_dist, n_iter, checkpoint_dir, n_cpu): lines 381-399
FitCall(n, dir, cpu) ==
    /\ UNCHANGED <<dog_vars, retry_vars>>
    /\ pc \in {"idle", "done", "failed"}
    /\ train_step + n <= MaxStep
    /\ call' = [n_iter |-> n, checkpoint_dir |-> dir, n_cpu |-> cpu]
    /\ trials' = <<>>
    /\ run_last' = <<>>
    /\ worker_failed' = FALSE
    /\ error' = "none"
    /\ pc' = "fmin"
    /\ UNCHANGED <<train_step, live, checkpoint_file, parameters, state,
                   truth, finished, res, f1>>

\* fmin draws a candidate and calls _objective: lines 313-321.
\* io_ok is whether the file system lets makedirs and open pass.
ObjectiveEnter(cand, io_ok) ==
    /\ UNCHANGED <<dog_vars, retry_vars>>
    /\ pc = "fmin"
    /\ Len(trials) < call.n_iter
    /\ train_step' = train_step + 1
    /\ IF call.checkpoint_dir /\ (~io_ok \/ checkpoint_file.kind = "truncated")
       THEN /\ Raise("checkpoint_io")
       ELSE /\ trials' = Append(trials, [vals |-> cand, result |-> <<>>])
            /\ parameters' = <<WithMaxRad(cand)>>
            /\ state' = IF call.checkpoint_dir /\ IsFile(checkpoint_file)
                        THEN <<JsonLoad(checkpoint_file)>>
                        ELSE <<>>
            /\ truth' = <<>>
            /\ finished' = {}
            /\ res' = <<>>
            /\ f1' = <<>>
            /\ pc' = "eval"
            /\ error' = error
    /\ worker_failed' = FALSE
    /\ UNCHANGED <<live, checkpoint_file, call, run_last>>

\* variant of future_result: a worker's exception is swallowed and the
\* element contributes no row
future_result_dropped(row, raises) ==
    [raised |-> FALSE, rows |-> IF raises THEN <<>> ELSE <<row>>]

\* line 338 (and line 324): the result of one element's
\* predict_and_evaluate reaches res, or, when the call raised (device out
\* of memory, a bad image, ...), future.result() re-raises its exception
future_result(row, raises) ==
    [raised |-> raises, rows |-> IF raises THEN <<>> ELSE <<row>>]

\* which element may complete next: in list order when n_cpu = 1 (line 324);
\* with a pool of n_cpu threads (lines 326-338) any element already started,
\* the pool starting them in submission order as threads become free
MayComplete(e) ==
    /\ e \in Elems \ finished
    /\ IF call.n_cpu = 1
       THEN e = Cardinality(finished) + 1
       ELSE e <= Cardinality(finished) + call.n_cpu

\* lines 323-338: one more element's predict_and_evaluate(x, y,
\* max_match_dist, "counts", parameters) has run and its result is
\* collected; row is the counts it finds for the element under the candidate
EvalNext(e, row, raises) ==
    /\ UNCHANGED <<dog_vars, retry_vars>>
    /\ pc = "eval"
    /\ MayComplete(e)
    /\ LET out == future_result(row, raises) IN
       IF out.raised
       THEN Raise("worker")
       ELSE /\ finished' = finished \cup {e}
            /\ res' = res \o out.rows
            /\ truth' = [x \in finished \cup {e} |-> IF x = e THEN row ELSE truth[x]]
            /\ UNCHANGED <<pc, error, trials, parameters, state, f1>>
    /\ worker_failed' = (worker_failed \/ raises)
    /\ live' = self_after_predict(live, parameters)
    /\ UNCHANGED <<train_step, checkpoint_file, call, run_last>>

\* lines 341-342: res = pd.concat(res); f1 = metrics(res)["f1"]
Aggregate ==
    /\ UNCHANGED <<dog_vars, retry_vars>>
    /\ pc = "eval"
    /\ finished = Elems
    /\ f1' = <<metrics_f1(concat(res))>>
    /\ pc' = "ckpt"
    /\ UNCHANGED <<train_step, live, checkpoint_file, call, trials,
                   parameters, state, truth, finished, res, error, run_last,
                   worker_failed>>

\* lines 344-358 up to open(checkpoint_file, "w"), which truncates the file
Checkpoint(io_ok) ==
    /\ UNCHANGED <<dog_vars, retry_vars>>
    /\ pc = "ckpt"
    /\ IF ~call.checkpoint_dir
       THEN ReturnLoss /\ UNCHANGED <<checkpoint_file, error>>
       ELSE IF ~FirstStep(train_step) /\ state = <<>>
       THEN Raise("unbound_state") /\ UNCHANGED checkpoint_file
       ELSE IF FirstStep(train_step) \/ Improves(f1[1], state[1])
       THEN IF io_ok
            THEN /\ state' = <<NewState(parameters[1], f1[1], train_step)>>
                 /\ parameters' = state'
                 /\ checkpoint_file' = Truncated
                 /\ pc' = "dump"
                 /\ UNCHANGED <<trials, truth, finished, res, f1, error>>
            ELSE Raise("checkpoint_io") /\ UNCHANGED checkpoint_file
       ELSE ReturnLoss /\ UNCHANGED <<checkpoint_file, error>>
    /\ UNCHANGED <<train_step, live, call, run_last, worker_failed>>

\* lines 349-350 / 356-357: json.dump(state, f), the file is closed, and
\* line 358 returns the loss
Dump ==
    /\ UNCHANGED <<dog_vars, retry_vars>>
    /\ pc = "dump"
    /\ checkpoint_file' = JsonDump(state[1])
    /\ run_last' = f1
    /\ ReturnLoss
    /\ UNCHANGED <<train_step, live, call, error, worker_failed>>

\* lines 399-407: fmin has run max_evals evaluations and returns the argmin
\* (its Trials object is dropped with it);
\* with no trial at all fmin raises ("There are no evaluation tasks, cannot
\* return argmin of task losses"), so lines 406-407 are not reached
FitReturn ==
    /\ UNCHANGED <<dog_vars, retry_vars>>
    /\ pc = "fmin"
    /\ Len(trials) = call.n_iter
    /\ IF call.n_iter = 0
       THEN /\ Raise("no_trials")
            /\ live' = live
       ELSE /\ pc' = "done"
            /\ live' = set_parameters(WithMaxRad(argmin(trials)))
            /\ trials' = <<>>
            /\ UNCHANGED <<error, parameters, state, truth, finished, res, f1>>
    /\ UNCHANGED <<train_step, checkpoint_file, call, run_last, worker_failed>>

\* the process is interrupted or killed during fit: its memory is gone,
\* the file stays as it is
Interrupt ==
    /\ UNCHANGED <<dog_vars, retry_vars>>
    /\ pc \in {"fmin", "eval", "ckpt", "dump"}
    /\ pc' = "killed"
    /\ error' = "interrupted"
    /\ train_step' = 0
    /\ live' = Defaults
    /\ call' = [n_iter |-> 0, checkpoint_dir |-> FALSE, n_cpu |-> 1]
    /\ trials' = <<>>
    /\ run_last' = <<>>
    /\ worker_failed' = FALSE
    /\ LocalsDropped
    /\ UNCHANGED checkpoint_file

\* BlobDoG.__init__: a new detector (in this or a later process); the
\* checkpoint file stays as the earlier runs left it
NewInstance ==
    /\ UNCHANGED <<dog_vars, retry_vars>>
    /\ pc \in {"idle", "done", "failed", "killed"}
    /\ train_step' = 0
    /\ live' = Defaults
    /\ pc' = "idle"
    /\ call' = [n_iter |-> 0, checkpoint_dir |-> FALSE, n_cpu |-> 1]
    /\ trials' = <<>>
    /\ error' = "none"
    /\ run_last' = <<>>
    /\ worker_failed' = FALSE
    /\ UNCHANGED <<checkpoint_file, parameters, state, truth, finished, res, f1>>

\* BlobDoG.set_parameters called by the owner between fit calls
SetParameters(d) ==
    /\ UNCHANGED <<dog_vars, retry_vars>>
    /\ pc \in {"idle", "done", "failed"}
    /\ live' = set_parameters(d)
    /\ UNCHANGED <<train_step, checkpoint_file, pc, call, trials, parameters,
                   state, truth, finished, res, f1, error, run_last, worker_failed>>

Next ==
    \/ \E n \in 0..MaxIter, dir \in BOOLEAN, cpu \in {1, 2} : FitCall(n, dir, cpu)
    \/ \E cand \in SearchSpace, io_ok \in BOOLEAN : ObjectiveEnter(cand, io_ok)
    \/ \E e \in Elems, row \in CountRows, raises \in BOOLEAN : EvalNext(e, row, raises)
    \/ Aggregate
    \/ \E io_ok \in BOOLEAN : Checkpoint(io_ok)
    \/ Dump
    \/ FitReturn
    \/ Interrupt
    \/ NewInstance
    \/ \E d \in Snapshots : SetParameters(d)

Spec == Init /\ [][Next]_vars

----------------------------------------------------------------------------
(* blob_dog(image, min_sigma, max_sigma, sigma_ratio, threshold_rel, overlap) *)
(* and the detection methods of BlobDoG that call it                          *)

\* a Python number
Scalar == [shape |-> "scalar"]

\* a numpy array (or sequence) of n numbers
Array(n) == [shape |-> "array", len |-> n]

\* np.isscalar(x)
isscalar(x) == x.shape = "scalar"

\* lines 139-143: a scalar dim_resolution is repeated n_dim times, and the
\* field is np.array(dim_resolution) either way
init_dim_resolution(arg) == IF isscalar(arg) THEN Array(D) ELSE Array(arg.len)

\* lines 188-189 / 200-201: (rad / self.dim_resolution) / np.sqrt(self.D),
\* a number divided by an array: an array of the same length
predict_sigma(rad, resolution) == Array(resolution.len)

\* line 76: scalar_sigma = np.isscalar(max_sigma) and np.isscalar(min_sigma)
is_scalar_sigma(min_sigma, max_sigma) == isscalar(max_sigma) /\ isscalar(min_sigma)

\* int(x) of Python for x = n/d, d > 0: truncation toward zero
int(n, d) == IF n >= 0 THEN n \div d ELSE -((-n) \div d)

\* variant of ScalePairs: the floor of the mean instead of its truncation
ScalePairs_floor(u) == (u + 4) \div 4

\* line 88: k = int(mean(log(max_sigma/min_sigma)/log(sigma_ratio) + 1)),
\* where u is mean(log(max_sigma/min_sigma)/log(sigma_ratio)) in quarters
ScalePairs(u) == int(u + 4, 4)

\* range(n) of Python as the sequence 0, 1, ..., n-1 (empty for n <= 0)
range(n) == [j \in 1..n |-> j - 1]

\* lines 91-92: the exponents e of the entries min_sigma * sigma_ratio**e
SigmaList(kk) == range(kk + 1)

Sign(n) == IF n > 0 THEN 1 ELSE IF n < 0 THEN -1 ELSE 0

\* u can be the value of mean(log(max_sigma/min_sigma)/log(sigma_ratio)) in
\* quarters under the parameters par: its sign is that of the quotient of
\* the two logarithms (sigma_ratio = 1.0 divides by zero, no finite value)
LogRatioOf(par, u) ==
    IF par.sigma_ratio = 10 THEN u = 0
    ELSE /\ u \in (-MaxLogQuarters)..MaxLogQuarters
         /\ Sign(u) = Sign(par.max_rad - par.min_rad) * Sign(par.sigma_ratio - 10)

\* the parameter dicts callers pass to a detection: the defaults, a relative
\* threshold of 1.5, a sigma_ratio of 1.0, and max_rad below min_rad
DetectionDicts ==
    { Defaults,
      [Defaults EXCEPT !.threshold = 150],
      [Defaults EXCEPT !.sigma_ratio = 10],
      [Defaults EXCEPT !.min_rad = 15, !.max_rad = 7] }

\* line 240: admitted_types
admitted_types == {"complete", "counts", "f1", "acc", "prec", "rec"}

\* evaluation_type arguments of the callers
EvaluationTypes == {"complete", "f1", "recall"}

NoResult == [kind |-> "none", cols |-> 0]

\* lines 76-95: scalar_sigma, the sigmas, k, sigma_list, and the image moved
\* to the device.  With sigma_ratio = 1.0 the quotient of line 88 is
\* infinite (or nan) and int() raises; cp.asarray raises when the device
\* cannot hold the image.
blob_dog_entry(par, u, scalar, dev_ok) ==
    /\ LogRatioOf(par, u)
    /\ args' = par
    /\ scalar_sigma' = scalar
    /\ i' = 0
    /\ detected_blobs' = <<>>
    /\ n_blobs' = 0
    /\ freed' = FALSE
    /\ result' = NoResult
    /\ matched' = FALSE
    /\ IF par.sigma_ratio = 10
       THEN /\ log_ratio' = <<>>
            /\ k' = 0
            /\ sigma_list' = <<>>
            /\ on_device' = FALSE
            /\ bpc' = "raised"
       ELSE /\ log_ratio' = <<u>>
            /\ k' = ScalePairs(u)
            /\ sigma_list' = SigmaList(ScalePairs(u))
            /\ on_device' = dev_ok
            /\ bpc' = IF dev_ok THEN "loop" ELSE "raised"

\* BlobDoG.__init__(n_dim, dim_resolution, exclude_border): lines 138-145
\* (the five parameters and train_step of the new object are those of Init)
Construct(arg) ==
    /\ bpc = "idle"
    /\ constructed_with' = arg
    /\ dim_resolution' = init_dim_resolution(arg)
    /\ op' = "none"
    /\ bpc' = "idle"
    /\ evaluation_type' = "complete"
    /\ args' = Defaults
    /\ log_ratio' = <<>>
    /\ k' = 0
    /\ i' = 0
    /\ sigma_list' = <<>>
    /\ scalar_sigma' = TRUE
    /\ detected_blobs' = <<>>
    /\ n_blobs' = 0
    /\ on_device' = FALSE
    /\ freed' = FALSE
    /\ matched' = FALSE
    /\ result' = NoResult
    /\ UNCHANGED <<fit_vars, retry_vars>>

\* a direct call of blob_dog with min_sigma and max_sigma of the given shapes
BlobCall(par, u, min_sigma, max_sigma, dev_ok) ==
    /\ bpc = "idle"
    /\ op' = "blob_dog"
    /\ evaluation_type' = "complete"
    /\ blob_dog_entry(par, u, is_scalar_sigma(min_sigma, max_sigma), dev_ok)
    /\ UNCHANGED <<constructed_with, dim_resolution>>
    /\ UNCHANGED <<fit_vars, retry_vars>>

\* the parameters predict detects with: lines 187-189 / 199-201
predict_parameters(self, par) == IF par = <<>> THEN self ELSE par[1]

\* BlobDoG.predict(x, parameters): lines 187-210; par is <<>> for
\* parameters=None and <<dict>> otherwise
Predict(par, u, dev_ok) ==
    /\ bpc = "idle"
    /\ op' = "predict"
    /\ evaluation_type' = "complete"
    /\ LET p == predict_parameters(live, par)
           min_sigma == predict_sigma(p.min_rad, dim_resolution)
           max_sigma == predict_sigma(p.max_rad, dim_resolution)
       IN  blob_dog_entry(p, u, is_scalar_sigma(min_sigma, max_sigma), dev_ok)
    /\ live' = self_after_predict(live, par)
    /\ UNCHANGED <<constructed_with, dim_resolution>>
    /\ UNCHANGED <<fit_rest, retry_vars>>

\* BlobDoG.predict_and_evaluate(x, y, max_match_dist, evaluation_type,
\* parameters): lines 292-298, up to the entry of blob_dog in predict
PredictAndEvaluate(etype, par, u, dev_ok) ==
    /\ bpc = "idle"
    /\ op' = "predict_and_evaluate"
    /\ evaluation_type' = etype
    /\ LET p == predict_parameters(live, par)
           min_sigma == predict_sigma(p.min_rad, dim_resolution)
           max_sigma == predict_sigma(p.max_rad, dim_resolution)
       IN  blob_dog_entry(p, u, is_scalar_sigma(min_sigma, max_sigma), dev_ok)
    /\ live' = self_after_predict(live, par)
    /\ UNCHANGED <<constructed_with, dim_resolution>>
    /\ UNCHANGED <<fit_rest, retry_vars>>

\* a direct call of BlobDoG.evaluate(y_pred, y_true, max_match_dist,
\* evaluation_type) on centers the caller already has
EvaluateCall(etype) ==
    /\ bpc = "idle"
    /\ op' = "evaluate"
    /\ evaluation_type' = etype
    /\ bpc' = "evaluate"
    /\ args' = Defaults
    /\ log_ratio' = <<>>
    /\ k' = 0
    /\ i' = 0
    /\ sigma_list' = <<>>
    /\ detected_blobs' = <<>>
    /\ n_blobs' = 0
    /\ on_device' = FALSE
    /\ freed' = FALSE
    /\ matched' = FALSE
    /\ result' = NoResult
    /\ UNCHANGED <<scalar_sigma, constructed_with, dim_resolution>>
    /\ UNCHANGED <<fit_vars, retry_vars>>

\* lines 96-107: one scale pair: two Gaussian filters, the DoG image, its
\* peaks (`peaks` rows), appended to the list; a device routine may raise
ScaleStep(peaks, ok) ==
    /\ bpc = "loop"
    /\ i < k
    /\ IF ok
       THEN /\ detected_blobs' = Append(detected_blobs, peaks)
            /\ i' = i + 1
            /\ bpc' = bpc
       ELSE /\ bpc' = "raised"
            /\ UNCHANGED <<detected_blobs, i>>
    /\ UNCHANGED <<k, scalar_sigma, n_blobs, on_device, freed, result, op,
                   evaluation_type, args, log_ratio, sigma_list, matched,
                   constructed_with, dim_resolution>>
    /\ UNCHANGED <<fit_vars, retry_vars>>

RECURSIVE SumRows(_)
SumRows(arrays) ==
    IF arrays = <<>> THEN 0 ELSE Head(arrays) + SumRows(Tail(arrays))

\* lines 109-110: cp.concatenate raises ValueError on an empty list (k <= 0);
\* otherwise the rows are stacked and copied to the host
Concatenate ==
    /\ bpc = "loop"
    /\ i >= k
    /\ IF detected_blobs = <<>>
       THEN bpc' = "raised" /\ n_blobs' = n_blobs
       ELSE bpc' = "free" /\ n_blobs' = SumRows(detected_blobs)
    /\ UNCHANGED <<k, i, scalar_sigma, detected_blobs, on_device, freed, result,
                   op, evaluation_type, args, log_ratio, sigma_list, matched,
                   constructed_with, dim_resolution>>
    /\ UNCHANGED <<fit_vars, retry_vars>>

\* lines 113-114: mempool.free_all_blocks(); pinned_mempool.free_all_blocks()
FreePools ==
    /\ bpc = "free"
    /\ freed' = TRUE
    /\ bpc' = "check"
    /\ UNCHANGED <<k, i, scalar_sigma, detected_blobs, n_blobs, on_device, result,
                   op, evaluation_type, args, log_ratio, sigma_list, matched,
                   constructed_with, dim_resolution>>
    /\ UNCHANGED <<fit_vars, retry_vars>>

\* lines 124-131: one sigma column in scalar_sigma mode, else one per axis
sigma_dim(scalar) == IF scalar THEN 1 ELSE D

\* lines 117-134: np.empty((0, 3)) when there is no peak, else the pruned
\* blobs, image.ndim coordinates and the sigma columns; predict hands the
\* array on (lines 212-216) and predict_and_evaluate passes it to evaluate
BlobReturn ==
    /\ bpc = "check"
    /\ result' = IF n_blobs = 0
                 THEN [kind |-> "empty", cols |-> EmptyCols]
                 ELSE [kind |-> "blobs", cols |-> D + sigma_dim(scalar_sigma)]
    /\ bpc' = IF op = "predict_and_evaluate" THEN "evaluate" ELSE "returned"
    /\ UNCHANGED <<k, i, scalar_sigma, detected_blobs, n_blobs, on_device, freed,
                   op, evaluation_type, args, log_ratio, sigma_list, matched,
                   constructed_with, dim_resolution>>
    /\ UNCHANGED <<fit_vars, retry_vars>>

\* BlobDoG.evaluate: lines 240-261.  The assert of lines 241-243 stops an
\* evaluation_type that is not admitted; otherwise bipartite_match runs and
\* the requested form of the evaluation is returned.
Evaluate ==
    /\ bpc = "evaluate"
    /\ IF evaluation_type \in admitted_types
       THEN matched' = TRUE /\ bpc' = "returned"
       ELSE matched' = FALSE /\ bpc' = "raised"
    /\ UNCHANGED <<k, i, scalar_sigma, detected_blobs, n_blobs, on_device, freed,
                   result, op, evaluation_type, args, log_ratio, sigma_list,
                   constructed_with, dim_resolution>>
    /\ UNCHANGED <<fit_vars, retry_vars>>

\* the call has returned or raised and its caller goes on: the frame of the
\* call is gone, the detector is ready for the next call
CallEnds ==
    /\ bpc \in {"returned", "raised"}
    /\ bpc' = "idle"
    /\ op' = "none"
    /\ evaluation_type' = "complete"
    /\ args' = Defaults
    /\ log_ratio' = <<>>
    /\ k' = 0
    /\ i' = 0
    /\ sigma_list' = <<>>
    /\ scalar_sigma' = TRUE
    /\ detected_blobs' = <<>>
    /\ n_blobs' = 0
    /\ on_device' = FALSE
    /\ freed' = FALSE
    /\ matched' = FALSE
    /\ result' = NoResult
    /\ UNCHANGED <<constructed_with, dim_resolution>>
    /\ UNCHANGED <<fit_vars, retry_vars>>

NextBlob ==
    \/ \E arg \in {Scalar, Array(D)} : Construct(arg)
    \/ /\ bpc = "idle"
       /\ \E par \in DetectionDicts, u \in (-MaxLogQuarters)..MaxLogQuarters,
             min_sigma \in {Scalar, Array(D)}, max_sigma \in {Scalar, Array(D)},
             dev_ok \in BOOLEAN : BlobCall(par, u, min_sigma, max_sigma, dev_ok)
    \/ /\ bpc = "idle"
       /\ \E par \in {<<>>} \cup {<<d>> : d \in DetectionDicts},
             u \in (-MaxLogQuarters)..MaxLogQuarters,
             dev_ok \in BOOLEAN : Predict(par, u, dev_ok)
    \/ /\ bpc = "idle"
       /\ \E etype \in EvaluationTypes,
             par \in {<<>>} \cup {<<d>> : d \in DetectionDicts},
             u \in (-MaxLogQuarters)..MaxLogQuarters,
             dev_ok \in BOOLEAN : PredictAndEvaluate(etype, par, u, dev_ok)
    \/ \E etype \in EvaluationTypes : EvaluateCall(etype)
    \/ \E peaks \in 0..MaxPeaks, ok \in BOOLEAN : ScaleStep(peaks, ok)
    \/ Concatenate
    \/ FreePools
    \/ BlobReturn
    \/ Evaluate
    \/ CallEnds

SpecBlob == Init /\ [][NextBlob]_vars

----------------------------------------------------------------------------
(* train.py, main: the U-Net prediction of each training file, lines 204-237 *)

\* line 212
max_attempts == 10

\* line 219: the exceptions the except clause catches
Caught == {"InvalidArgumentError", "ValueError"}

\* what a call of unet(x, training=False) can do: return the prediction,
\* raise an exception the loop catches, or raise another one
Outcomes == {"ok"} \cup Caught \cup {"ResourceExhaustedError"}

\* variant of gives_up: the test lets one more attempt through
gives_up_late(a) == a > max_attempts

\* line 220: attempt == max_attempts
gives_up(a) == a = max_attempts

\* lines 223-228: one voxel at the end of axis 1 when attempt is even, one
\* at the end of each of axes 2 and 3 when it is odd
paddings(a) ==
    IF a % 2 = 0 THEN [axis1 |-> 1, axis2 |-> 0, axis3 |-> 0]
    ELSE [axis1 |-> 0, axis2 |-> 1, axis3 |-> 1]

\* line 230: tf.pad(x, paddings), as the voxels added on each axis
pad(x, p) ==
    [axis1 |-> x.axis1 + p.axis1, axis2 |-> x.axis2 + p.axis2,
     axis3 |-> x.axis3 + p.axis3]

\* lines 205-213: the next file is read and normalised; attempt = 0
NextFile ==
    /\ rpc \in {"idle", "stored"}
    /\ file_i < NFiles
    /\ file_i' = file_i + 1
    /\ attempt' = 0
    /\ x_pad' = [axis1 |-> 0, axis2 |-> 0, axis3 |-> 0]
    /\ exc' = "none"
    /\ n_calls' = 0
    /\ rpc' = "try"
    /\ UNCHANGED <<fit_vars, dog_vars>>

\* lines 215-219: pred = unet(x, training=False); break on success, the
\* except clause on a caught exception; any other exception leaves main
UnetCall(outcome) ==
    /\ rpc = "try"
    /\ n_calls' = n_calls + 1
    /\ IF outcome = "ok"
       THEN rpc' = "predicted" /\ exc' = exc
       ELSE /\ exc' = outcome
            /\ rpc' = IF outcome \in Caught THEN "except" ELSE "raised"
    /\ UNCHANGED <<file_i, attempt, x_pad>>
    /\ UNCHANGED <<fit_vars, dog_vars>>

\* lines 220-231: raise e after max_attempts paddings, else pad x and try
\* again
Handle ==
    /\ rpc = "except"
    /\ IF gives_up(attempt)
       THEN /\ rpc' = "raised"
            /\ UNCHANGED <<attempt, x_pad, exc>>
       ELSE /\ x_pad' = pad(x_pad, paddings(attempt))
            /\ attempt' = attempt + 1
            /\ exc' = "none"
            /\ rpc' = "try"
    /\ UNCHANGED <<file_i, n_calls>>
    /\ UNCHANGED <<fit_vars, dog_vars>>

\* lines 233-237: the prediction is scaled and put into the database
Store ==
    /\ rpc = "predicted"
    /\ rpc' = "stored"
    /\ UNCHANGED <<file_i, attempt, x_pad, exc, n_calls>>
    /\ UNCHANGED <<fit_vars, dog_vars>>

NextRetry ==
    \/ NextFile
    \/ \E outcome \in Outcomes : UnetCall(outcome)
    \/ Handle
    \/ Store

\* the script is one sequential thread: a step that can be taken is taken
SpecRetry == Init /\ [][NextRetry]_vars /\ WF_vars(NextRetry)

----------------------------------------------------------------------------
(* Claims about fit, _objective and the checkpoint file *)

\* what the list comprehension of line 324 collects: the rows in list order
sequential_res(tr) == [e \in Elems |-> tr[e]]

\* the candidate hyperopt handed to the evaluation in progress
current_vals == trials[Len(trials)].vals

\* C1: an objective evaluation overwrites the checkpoint file only if its F1
\* is strictly greater than the F1 the file held when the evaluation began
\* (the file is not touched between the load and the write), also in the
\* first evaluation of a run that finds a file of an earlier run.
C1_OverwriteOnlyIfStrictlyBetter ==
    [][(/\ pc = "ckpt"
        /\ checkpoint_file.kind = "json"
        /\ checkpoint_file'.kind # "json" \/ checkpoint_file' # checkpoint_file)
       => Greater(f1[1], checkpoint_file.data.f1)]_vars

\* C2: the F1 values one fit call writes are non-decreasing in write order,
\* and no write replaces a persisted score by a lower one.
C2_WritesNonDecreasing ==
    [][(pc = "ckpt" /\ pc' = "dump")
       => /\ run_last # <<>> => AtLeast(f1[1], run_last[1])
          /\ checkpoint_file.kind = "json"
                => AtLeast(f1[1], checkpoint_file.data.f1)]_vars

\* C3: when fit finishes after n_iter >= 1 evaluations, the live parameters
\* are those of a trial of greatest F1 among the trials of this fit call,
\* with max_rad = min_rad + min_max_rad_diff of that trial.
C3_FitAdoptsBest ==
    [][(pc = "fmin" /\ pc' = "done")
       => /\ call.n_iter >= 1
          /\ Len(trials) = call.n_iter
          /\ \E t \in 1..Len(trials) :
                /\ \A j \in 1..Len(trials) :
                      AtLeast(trials[t].result[1], trials[j].result[1])
                /\ live' = [min_rad |-> trials[t].vals.min_rad,
                            max_rad |-> trials[t].vals.min_rad
                                          + trials[t].vals.min_max_rad_diff,
                            sigma_ratio |-> trials[t].vals.sigma_ratio,
                            overlap |-> trials[t].vals.overlap,
                            threshold |-> trials[t].vals.threshold]]_vars

\* a fit call of two evaluations on a new instance has finished; its first
\* evaluation is the one in the file, so the second did not beat it, and
\* the live parameters are the first candidate's
C3_Witness ==
    /\ pc = "done"
    /\ call.n_iter = 2
    /\ call.checkpoint_dir
    /\ train_step = 2
    /\ checkpoint_file.kind = "json"
    /\ checkpoint_file.data.step = 1
    /\ run_last = <<checkpoint_file.data.f1>>
    /\ live.min_rad = checkpoint_file.data.min_rad
    /\ live.max_rad = checkpoint_file.data.max_rad

\* C4: fit with n_iter = 0 completes, leaving the five parameters as they
\* were and the checkpoint file unwritten.
C4_ZeroIterationsCompletes ==
    [][(pc = "fmin" /\ call.n_iter = 0 /\ pc' # "killed")
       => /\ pc' = "done"
          /\ live' = live
          /\ checkpoint_file' = checkpoint_file]_vars

\* C5: the F1 a parallel evaluation (n_cpu > 1) computes is, for every
\* completion order of the workers, the F1 the sequential evaluation
\* computes from the same per-element counts.
C5_ParallelLossOrderIndependent ==
    (pc \in {"ckpt", "dump"} /\ call.n_cpu > 1)
       => f1 = <<metrics_f1(concat(sequential_res(truth)))>>

\* a parallel evaluation whose workers completed out of list order, with
\* different counts for the two elements, has computed its F1
C5_Witness ==
    /\ pc = "ckpt"
    /\ call.n_cpu > 1
    /\ res[1] = truth[2]
    /\ res[1] # truth[1]
    /\ f1 # <<>>

\* C6: when a worker of a parallel evaluation fails, the failure leaves the
\* objective and ends the fit call: no score is computed for that
\* evaluation and the step at which the failure surfaces leaves the
\* checkpoint file as it was.
C6_WorkerFailurePropagates ==
    /\ []((worker_failed /\ call.n_cpu > 1)
            => (pc = "failed" /\ error = "worker" /\ f1 = <<>> /\ trials = <<>>))
    /\ [][(worker_failed' /\ ~worker_failed /\ call.n_cpu > 1)
            => (pc = "eval" /\ checkpoint_file' = checkpoint_file)]_vars

\* a checkpointing fit call with two workers has ended by a worker's
\* exception
C6_Witness ==
    /\ worker_failed
    /\ pc = "failed"
    /\ call.n_cpu > 1
    /\ call.checkpoint_dir
    /\ train_step = 2

\* C7: at every instant the checkpoint file is absent or holds one complete
\* persisted state.
C7_FileAbsentOrComplete ==
    checkpoint_file.kind \in {"absent", "json"}

\* C8: a checkpoint path that cannot be read or written does not abort the
\* optimization: no fit call ends by a checkpoint I/O failure.
C8_CheckpointIOFailureTolerated ==
    ~(pc = "failed" /\ error = "checkpoint_io")

\* C9: every state written to the checkpoint file is a whole record with
\* the keys min_rad, max_rad, sigma_ratio, overlap, threshold, f1 and step,
\* holding the parameters of the candidate being evaluated, the F1 of that
\* evaluation and its train_step.
C9_WrittenRecordIsOneEvaluation ==
    [][(pc = "dump" /\ pc' = "fmin")
       => /\ checkpoint_file'.kind = "json"
          /\ {"min_rad", "max_rad", "sigma_ratio", "overlap", "threshold",
              "f1", "step"} \subseteq DOMAIN checkpoint_file'.data
          /\ LET d == checkpoint_file'.data IN
                /\ d.min_rad = current_vals.min_rad
                /\ d.max_rad = current_vals.min_rad + current_vals.min_max_rad_diff
                /\ d.sigma_ratio = current_vals.sigma_ratio
                /\ d.overlap = current_vals.overlap
                /\ d.threshold = current_vals.threshold
                /\ d.f1 = metrics_f1(concat(res))
                /\ d.step = train_step]_vars

\* the second evaluation of a fit call has improved on the first and its
\* record is in the file
C9_Witness ==
    /\ pc = "fmin"
    /\ checkpoint_file.kind = "json"
    /\ checkpoint_file.data.step = 2
    /\ train_step = 2
    /\ run_last = <<checkpoint_file.data.f1>>
    /\ trials[Len(trials)].result = run_last

\* C16: the five live parameters change only in a set_parameters call or at
\* the completion of fit (or with the object itself: a new detector has the
\* defaults, a killed process has none): no step of an objective
\* evaluation, with its predict_and_evaluate calls under an explicit
\* parameters dict, sequential or in workers, changes them.
C16_LiveChangesOnlyBySetOrFit ==
    [][live' # live
       => \/ pc \in {"idle", "done", "failed"} /\ pc' = pc /\ UNCHANGED fit_rest
          \/ pc = "fmin" /\ pc' = "done"
          \/ pc' = "killed"
          \/ pc' = "idle" /\ train_step' = 0 /\ live' = Defaults]_vars

\* a parallel evaluation has run predict_and_evaluate on every element under
\* a candidate that differs from the live parameters in all five fields
C16_Witness ==
    /\ pc = "ckpt"
    /\ call.n_cpu > 1
    /\ finished = Elems
    /\ Len(res) = NElems
    /\ parameters[1].min_rad # live.min_rad
    /\ parameters[1].max_rad # live.max_rad
    /\ parameters[1].sigma_ratio # live.sigma_ratio
    /\ parameters[1].overlap # live.overlap
    /\ parameters[1].threshold # live.threshold

\* C17: an objective evaluation that runs with checkpointing enabled has a
\* persisted best to compare against when it reaches the comparison: it is
\* the first evaluation of the instance or a state was loaded from the
\* file; no fit call ends on the undefined state.
C17_CheckpointStateDefined ==
    /\ (pc = "ckpt" /\ call.checkpoint_dir) => (train_step = 1 \/ state # <<>>)
    /\ error # "unbound_state"

\* C18: when a fit call with a checkpoint directory completes (n_iter >= 1),
\* the checkpoint file holds a record whose five parameter fields are the
\* live parameters fit has adopted.
C18_FileHoldsAdoptedParameters ==
    [][(pc = "fmin" /\ pc' = "done" /\ call.checkpoint_dir /\ call.n_iter >= 1)
       => /\ checkpoint_file'.kind = "json"
          /\ set_parameters(checkpoint_file'.data) = live']_vars

----------------------------------------------------------------------------
(* Claims about blob_dog *)

\* C10: every invocation of blob_dog that has put the image on the device
\* has released the device and pinned memory pools when it ends, whether it
\* returns blobs, returns the empty result or raises.
C10_PoolsReleasedOnEveryExit ==
    (bpc \in {"returned", "raised"} /\ on_device) => freed

\* C11: a blob_dog invocation that has searched all its k >= 0 scale pairs
\* and found no candidate at any of them ends by returning the empty
\* result, never by raising.
C11_NoCandidateReturnsEmpty ==
    (/\ bpc \in {"returned", "raised", "evaluate"}
     /\ op \in {"blob_dog", "predict", "predict_and_evaluate"}
     /\ on_device
     /\ k >= 0
     /\ i >= k
     /\ SumRows(detected_blobs) = 0)
       => (result.kind = "empty" /\ bpc # "raised")

\* spec section 3, DetectorParameters: positive radii, max_rad not below
\* min_rad, sigma_ratio > 1, overlap and threshold in [0, 1]
ValidParameters(p) ==
    /\ p.min_rad > 0
    /\ p.max_rad > 0
    /\ p.max_rad >= p.min_rad
    /\ p.sigma_ratio > 10
    /\ p.overlap \in 0..100
    /\ p.threshold \in 0..100

\* C12: a detection call given out-of-range or inconsistent parameters is
\* stopped by an error before any scale pair is filtered or searched for
\* peaks: it processes no scale pair and gives no result.
C12_InvalidParametersFailFast ==
    (/\ op \in {"blob_dog", "predict", "predict_and_evaluate"}
     /\ ~ValidParameters(args))
       => /\ i = 0
          /\ detected_blobs = <<>>
          /\ bpc \in {"loop", "raised"}
          /\ result.kind = "none"

\* C13: a call of evaluate or predict_and_evaluate with an evaluation_type
\* that is not admitted fails at its entry: no scale pair is filtered or
\* searched and bipartite_match does not run.
C13_InvalidEvaluationTypeFailsAtEntry ==
    (/\ op \in {"evaluate", "predict_and_evaluate"}
     /\ evaluation_type \notin admitted_types)
       => (i = 0 /\ detected_blobs = <<>> /\ ~matched)

\* round(n/d) for d > 0, halves going to the even neighbour as Python's
\* round does
Rounded(n, d) ==
    LET q == n \div d
        r == n % d
    IN  IF 2 * r < d THEN q
        ELSE IF 2 * r > d THEN q + 1
        ELSE IF q % 2 = 0 THEN q ELSE q + 1

\* C14 as stated: k is round(v) for v = mean(log(max_sigma/min_sigma) /
\* log(sigma_ratio)) + 1, and sigma_list holds the entries
\* min_sigma * sigma_ratio^e for e = 0..k, k + 1 of them.
C14_ScalePairsIsRound ==
    (bpc # "idle" /\ log_ratio # <<>>)
       => /\ k = Rounded(log_ratio[1] + 4, 4)
          /\ Len(sigma_list) = Cardinality(0..k)
          /\ \A e \in 1..Len(sigma_list) : sigma_list[e] = e - 1

\* C14 as amended: k is v truncated toward zero (the integer of greatest
\* magnitude between 0 and v), and sigma_list holds the entries
\* min_sigma * sigma_ratio^e for e = 0..k, k + 1 of them.
C14_ScalePairsIsTruncation ==
    (bpc # "idle" /\ log_ratio # <<>>)
       => LET v4 == log_ratio[1] + 4 IN
          /\ v4 >= 0 => (4 * k <= v4 /\ v4 < 4 * (k + 1))
          /\ v4 < 0 => (4 * (k - 1) < v4 /\ v4 <= 4 * k)
          /\ Len(sigma_list) = Cardinality(0..k)
          /\ \A e \in 1..Len(sigma_list) : sigma_list[e] = e - 1

\* v = 2.75: blob_dog works with k = 2 scale pairs and three sigmas
C14_Witness ==
    /\ bpc = "loop"
    /\ log_ratio = <<7>>
    /\ k = 2
    /\ Len(sigma_list) = 3
    /\ i = 2

\* C15: the blobs predict returns have n_dim coordinates and one sigma
\* column on a detector built with a scalar dim_resolution, n_dim sigma
\* columns on a detector built with a per-axis dim_resolution.
C15_SigmaColumnsFollowResolution ==
    (op = "predict" /\ bpc = "returned" /\ result.kind = "blobs")
       => result.cols = D + (IF isscalar(constructed_with) THEN 1 ELSE D)

----------------------------------------------------------------------------
(* Claims about the training script *)

====
